---- MODULE Spec2Model ----
(***************************************************************************)
(* Model of src/src/quop.js: Quop, a 2x2 complex matrix [[a, b], [c, d]],  *)
(* its constructors (Quop, Quop.from, Quop.fromRotation), its algebra      *)
(* (adjoint, scaledBy, plus, minus, times), isEqualTo, toString and the    *)
(* named constants.                                                        *)
(*                                                                         *)
(* Numbers.  The values the model computes with are exact: a JS number is  *)
(* represented as (n + m*sqrt(2))/d * pi^p, which is closed under the      *)
(* products the code forms and under the sums it forms on the inputs the   *)
(* model enumerates.  Math.sin / Math.cos are exact on multiples of pi/4,  *)
(* Math.sqrt on squares of such numbers.  Rounding, NaN, Infinity and      *)
(* signed zero of IEEE doubles are not represented.                        *)
(*                                                                         *)
(* Complex lives in complex.js, a file of its own; its operations are      *)
(* modelled from the contract the specification states for the Scalar type.*)
(***************************************************************************)
EXTENDS Integers, Sequences, FiniteSets

\* ------------------------------------------------------------- bounds
\* Largest number of public calls in one run.
MaxCalls == 2
\* Rotation vectors have components k/4 or k*sqrt(2)/8 with |k| <= MaxTurns.
MaxTurns == 2

\* ------------------------------------------------------ exact numbers
Abs(i) == IF i < 0 THEN -i ELSE i

RECURSIVE Gcd(_, _)
Gcd(i, j) == IF j = 0 THEN i ELSE Gcd(j, i % j)

\* The number (n + m*sqrt(2))/d * pi^p in lowest terms; zero has one form.
Num(n, m, d, p) ==
    IF n = 0 /\ m = 0 THEN [n |-> 0, m |-> 0, d |-> 1, p |-> 0]
    ELSE LET g == Gcd(Gcd(Abs(n), Abs(m)), d)
         IN  [n |-> n \div g, m |-> m \div g, d |-> d \div g, p |-> p]

Int2Num(i) == Num(i, 0, 1, 0)
Zero == Int2Num(0)
One == Int2Num(1)
Half == Num(1, 0, 2, 0)
Math_PI == Num(1, 0, 1, 1)

IsZero(x) == x.n = 0 /\ x.m = 0

\* x + y. Two non-zero numbers are added only when they carry the same power
\* of pi; no other sum has a value in this representation.
Add(x, y) ==
    IF IsZero(x) THEN y
    ELSE IF IsZero(y) THEN x
    ELSE IF x.p = y.p
         THEN Num(x.n * y.d + y.n * x.d, x.m * y.d + y.m * x.d, x.d * y.d, x.p)
         ELSE CHOOSE z \in {} : TRUE

Neg(x) == Num(-x.n, -x.m, x.d, x.p)
Sub(x, y) == Add(x, Neg(y))

\* x * y, with sqrt(2)*sqrt(2) = 2.
Mul(x, y) ==
    Num(x.n * y.n + 2 * x.m * y.m, x.n * y.m + x.m * y.n, x.d * y.d, x.p + y.p)

\* x / y for y a non-zero rational multiple of a power of pi.
Div(x, y) ==
    IF y.m = 0 /\ y.n # 0
    THEN LET sg == IF y.n < 0 THEN -1 ELSE 1
         IN  Num(sg * x.n * y.d, sg * x.m * y.d, x.d * Abs(y.n), x.p - y.p)
    ELSE CHOOSE z \in {} : TRUE

\* The sign of n + m*sqrt(2): -1, 0 or 1 (pi^p and d are positive).
Sign(x) ==
    IF x.n >= 0 /\ x.m >= 0 THEN (IF IsZero(x) THEN 0 ELSE 1)
    ELSE IF x.n <= 0 /\ x.m <= 0 THEN -1
    ELSE IF x.n > 0 THEN (IF x.n * x.n > 2 * x.m * x.m THEN 1 ELSE -1)
    ELSE (IF 2 * x.m * x.m > x.n * x.n THEN 1 ELSE -1)

Math_abs(x) == IF Sign(x) < 0 THEN Neg(x) ELSE x

IsSquare(i) == \E r \in 0..i : r * r = i
ISqrt(i) == CHOOSE r \in 0..i : r * r = i

\* Math.sqrt, on q*pi^(2k) with q the square of a rational or twice one.
HasSqrt(x) ==
    /\ x.m = 0 /\ x.n >= 0 /\ x.p % 2 = 0
    /\ \/ IsSquare(x.n) /\ IsSquare(x.d)
       \/ x.n % 2 = 0 /\ IsSquare(x.n \div 2) /\ IsSquare(x.d)
       \/ x.d % 2 = 0 /\ IsSquare(x.n) /\ IsSquare(x.d \div 2)
Math_sqrt(x) ==
    IF IsSquare(x.n) /\ IsSquare(x.d)
    THEN Num(ISqrt(x.n), 0, ISqrt(x.d), x.p \div 2)
    ELSE IF x.n % 2 = 0 /\ IsSquare(x.n \div 2) /\ IsSquare(x.d)
    THEN Num(0, ISqrt(x.n \div 2), ISqrt(x.d), x.p \div 2)
    ELSE Num(0, ISqrt(x.n), 2 * ISqrt(x.d \div 2), x.p \div 2)

\* t = k*pi/4 for an integer k.
IsOctant(t) == IsZero(t) \/ (t.m = 0 /\ t.p = 1 /\ 4 % t.d = 0)
Octant(t) == IF IsZero(t) THEN 0 ELSE (t.n * (4 \div t.d)) % 8

\* Math.sin and Math.cos on multiples of pi/4.
SinOct(k) ==
    CASE k = 0 -> Zero
      [] k = 1 -> Num(0, 1, 2, 0)
      [] k = 2 -> One
      [] k = 3 -> Num(0, 1, 2, 0)
      [] k = 4 -> Zero
      [] k = 5 -> Num(0, -1, 2, 0)
      [] k = 6 -> Int2Num(-1)
      [] k = 7 -> Num(0, -1, 2, 0)
Math_sin(t) == SinOct(Octant(t))
Math_cos(t) == SinOct((Octant(t) + 2) % 8)

\* x < 0.0002 for x >= 0 a rational multiple of 1 or of pi, decided with
\* 3 < pi < 4; the numbers in between are outside the representation.
LtSmall(x) ==
    IF IsZero(x) THEN TRUE
    ELSE IF x.m = 0 /\ x.p \in {0, 1}
    THEN IF x.n * 5000 * (IF x.p = 1 THEN 3 ELSE 1) >= x.d THEN FALSE
         ELSE IF x.n * 5000 * (IF x.p = 1 THEN 4 ELSE 1) < x.d THEN TRUE
         ELSE CHOOSE b \in {} : TRUE
    ELSE CHOOSE b \in {} : TRUE

\* ---------------------------------------------------------- JS values
\* A JavaScript value: its kind (tag) and the fields that kind uses.
Value(tag, re, im, elems, ref, str) ==
    [tag |-> tag, re |-> re, im |-> im, elems |-> elems, ref |-> ref, str |-> str]

JsNumber(x) == Value("number", x, Zero, <<>>, 0, "")
JsString(s) == Value("string", Zero, Zero, <<>>, 0, s)
JsConcat(parts) == Value("string", Zero, Zero, parts, 0, "")
JsNull == Value("null", Zero, Zero, <<>>, 0, "")
JsUndefined == Value("undefined", Zero, Zero, <<>>, 0, "")
JsObject == Value("object", Zero, Zero, <<>>, 0, "")
JsArray(elems) == Value("Array", Zero, Zero, elems, 0, "")
JsTrue == Value("boolean", Zero, Zero, <<>>, 0, "true")
JsFalse == Value("boolean", Zero, Zero, <<>>, 0, "false")
JsBoolean(b) == IF b THEN JsTrue ELSE JsFalse
\* A reference to the Quop at address r of the heap.
QuopRef(r) == Value("Quop", Zero, Zero, <<>>, r, "")
\* The outcome of an expression that threw.
Throw == Value("throw", Zero, Zero, <<>>, 0, "")

\* ------------------------------------------------- Complex (complex.js)
Complex(re, im) == Value("Complex", re, im, <<>>, 0, "")

InstanceofComplex(v) == v.tag = "Complex"

\* Complex.from: a Complex as it is, a number as a real; anything else throws.
Complex_from(v) ==
    IF InstanceofComplex(v) THEN v
    ELSE IF v.tag = "number" THEN Complex(v.re, Zero)
    ELSE Throw

Complex_isEqualTo(z, other) ==
    InstanceofComplex(other) /\ z.re = other.re /\ z.im = other.im

conjugate(z) == Complex(z.re, Neg(z.im))

Complex_plus(z, v) ==
    LET o == Complex_from(v)
    IN  IF o.tag = "throw" THEN Throw
        ELSE Complex(Add(z.re, o.re), Add(z.im, o.im))

Complex_minus(z, v) ==
    LET o == Complex_from(v)
    IN  IF o.tag = "throw" THEN Throw
        ELSE Complex(Sub(z.re, o.re), Sub(z.im, o.im))

Complex_times(z, v) ==
    LET o == Complex_from(v)
    IN  IF o.tag = "throw" THEN Throw
        ELSE Complex(Sub(Mul(z.re, o.re), Mul(z.im, o.im)),
                     Add(Mul(z.re, o.im), Mul(z.im, o.re)))

\* The display form of a Complex, kept abstract: the value it displays.
Complex_toString(z) == Value("string", z.re, z.im, <<>>, 0, "Complex")

\* ---------------------------------------------------------------- state
VARIABLES
    heap,    \* the Quop objects that exist, by address: each [a, b, c, d]
    last,    \* the last public call: [op, this, args, threw, ret]
    ncalls   \* the number of public calls made

vars == <<heap, last, ncalls>>

\* Addresses of the named constants, in the order lines 162-166 create them.
IDENTITY == 1
PAULI_X == 2
PAULI_Y == 3
PAULI_Z == 4
HADAMARD == 5

\* ------------------------------------------------------------- Quop
\* What a constructor call yields: the new object, or threw.
NoQuop == [a |-> JsUndefined, b |-> JsUndefined, c |-> JsUndefined, d |-> JsUndefined]
Thrown == [threw |-> TRUE, obj |-> NoQuop]
Made(a, b, c, d) == [threw |-> FALSE, obj |-> [a |-> a, b |-> b, c |-> c, d |-> d]]

\* Mutant of Quop: the check of c is missing.
Quop_uncheckedC(a, b, c, d) ==
    IF ~InstanceofComplex(a) THEN Thrown
    ELSE IF ~InstanceofComplex(b) THEN Thrown
    ELSE IF ~InstanceofComplex(d) THEN Thrown
    ELSE Made(a, b, c, d)

\* function Quop(a, b, c, d)
Quop(a, b, c, d) ==
    IF ~InstanceofComplex(a) THEN Thrown
    ELSE IF ~InstanceofComplex(b) THEN Thrown
    ELSE IF ~InstanceofComplex(c) THEN Thrown
    ELSE IF ~InstanceofComplex(d) THEN Thrown
    ELSE Made(a, b, c, d)

\* Mutant of Quop_from: only too short an array is rejected.
Quop_from_atLeast4(coefs) ==
    IF coefs.tag = "Array"
    THEN IF Len(coefs.elems) < 4 THEN Thrown
         ELSE LET c0 == Complex_from(coefs.elems[1])
                  c1 == Complex_from(coefs.elems[2])
                  c2 == Complex_from(coefs.elems[3])
                  c3 == Complex_from(coefs.elems[4])
              IN  IF \E z \in {c0, c1, c2, c3} : z.tag = "throw" THEN Thrown
                  ELSE Quop(c0, c1, c2, c3)
    ELSE Thrown

\* Quop.from(coefs)
Quop_from(coefs) ==
    IF coefs.tag = "Array"
    THEN IF Len(coefs.elems) # 4 THEN Thrown
         ELSE LET c0 == Complex_from(coefs.elems[1])
                  c1 == Complex_from(coefs.elems[2])
                  c2 == Complex_from(coefs.elems[3])
                  c3 == Complex_from(coefs.elems[4])
              IN  IF \E z \in {c0, c1, c2, c3} : z.tag = "throw" THEN Thrown
                  ELSE Quop(c0, c1, c2, c3)
    ELSE Thrown

InstanceofQuop(v) == v.tag = "Quop"

\* other.f: a field of the Quop referred to, undefined on another object or
\* primitive, a TypeError on null and undefined.
Prop(v, f) ==
    IF InstanceofQuop(v) THEN heap[v.ref][f]
    ELSE IF v.tag \in {"null", "undefined"} THEN Throw
    ELSE JsUndefined

\* x && y: a throw in x propagates, a false x is the result, else y.
JsAnd(x, y) ==
    IF x.tag = "throw" THEN Throw
    ELSE IF x = JsFalse THEN JsFalse
    ELSE y

\* this.f.isEqualTo(other.f); reading other.f may throw.
FieldIsEqualTo(this, other, f) ==
    IF Prop(other, f).tag = "throw" THEN Throw
    ELSE JsBoolean(Complex_isEqualTo(this[f], Prop(other, f)))

\* Mutant of isEqualTo: the fields are compared without the instanceof test.
isEqualTo_untyped(this, other) ==
    JsAnd(FieldIsEqualTo(this, other, "a"),
    JsAnd(FieldIsEqualTo(this, other, "b"),
    JsAnd(FieldIsEqualTo(this, other, "c"),
          FieldIsEqualTo(this, other, "d"))))

\* Quop.prototype.isEqualTo, on the receiver's object and the argument value
isEqualTo(this, other) ==
    JsAnd(JsBoolean(InstanceofQuop(other)),
    JsAnd(FieldIsEqualTo(this, other, "a"),
    JsAnd(FieldIsEqualTo(this, other, "b"),
    JsAnd(FieldIsEqualTo(this, other, "c"),
          FieldIsEqualTo(this, other, "d")))))

\* Quop.prototype.toString
toString(this) ==
    JsConcat(<<JsString("{{"), Complex_toString(this.a), JsString(", "),
               Complex_toString(this.b), JsString("}, {"),
               Complex_toString(this.c), JsString(", "),
               Complex_toString(this.d), JsString("}}")>>)

\* Mutant of adjoint: the conjugate without the transpose.
adjoint_untransposed(this) ==
    Quop(conjugate(this.a), conjugate(this.b), conjugate(this.c), conjugate(this.d))

\* Quop.prototype.adjoint
adjoint(this) ==
    Quop(conjugate(this.a), conjugate(this.c), conjugate(this.b), conjugate(this.d))

\* Quop.prototype.scaledBy
scaledBy(this, v) ==
    Quop(Complex_times(this.a, v), Complex_times(this.b, v),
         Complex_times(this.c, v), Complex_times(this.d, v))

\* Quop.prototype.plus
plus(this, other) ==
    Quop(Complex_plus(this.a, other.a), Complex_plus(this.b, other.b),
         Complex_plus(this.c, other.c), Complex_plus(this.d, other.d))

\* Quop.prototype.minus
minus(this, other) ==
    Quop(Complex_minus(this.a, other.a), Complex_minus(this.b, other.b),
         Complex_minus(this.c, other.c), Complex_minus(this.d, other.d))

\* Mutant of times: the operands reversed (other on the left).
times_reversed(this, other) ==
    LET a == other.a
        b == other.b
        c == other.c
        d == other.d
        e == this.a
        f == this.b
        g == this.c
        h == this.d
    IN  Quop(Complex_plus(Complex_times(a, e), Complex_times(b, g)),
             Complex_plus(Complex_times(a, f), Complex_times(b, h)),
             Complex_plus(Complex_times(c, e), Complex_times(d, g)),
             Complex_plus(Complex_times(c, f), Complex_times(d, h)))

\* Mutant of times: d.times(h) where the lower-left entry needs d.times(g).
times_wrongEntry(this, other) ==
    Quop(Complex_plus(Complex_times(this.a, other.a), Complex_times(this.b, other.c)),
         Complex_plus(Complex_times(this.a, other.b), Complex_times(this.b, other.d)),
         Complex_plus(Complex_times(this.c, other.a), Complex_times(this.d, other.d)),
         Complex_plus(Complex_times(this.c, other.b), Complex_times(this.d, other.d)))

\* Quop.prototype.times
times(this, other) ==
    LET a == this.a
        b == this.b
        c == this.c
        d == this.d
        e == other.a
        f == other.b
        g == other.c
        h == other.d
    IN  Quop(Complex_plus(Complex_times(a, e), Complex_times(b, g)),
             Complex_plus(Complex_times(a, f), Complex_times(b, h)),
             Complex_plus(Complex_times(c, e), Complex_times(d, g)),
             Complex_plus(Complex_times(c, f), Complex_times(d, h)))

\* var sinc, of Quop.fromRotation
sinc(t) ==
    IF LtSmall(Math_abs(t)) THEN Sub(One, Div(Mul(t, t), Int2Num(6)))
    ELSE Div(Math_sin(t), t)

\* Mutant of RotationSign: > 0 where the code tests >= 0.
RotationSign_strict(x, y, z) ==
    IF Sign(Add(Add(Mul(Int2Num(-11), x), Mul(Int2Num(-13), y)),
                Mul(Int2Num(-17), z))) > 0
    THEN Int2Num(1) ELSE Int2Num(-1)

\* var s, of Quop.fromRotation: the sign of the phase correction
RotationSign(x, y, z) ==
    IF Sign(Add(Add(Mul(Int2Num(-11), x), Mul(Int2Num(-13), y)),
                Mul(Int2Num(-17), z))) >= 0
    THEN Int2Num(1) ELSE Int2Num(-1)

\* var theta, of Quop.fromRotation
RotationTheta(x, y, z) == Math_sqrt(Add(Add(Mul(x, x), Mul(y, y)), Mul(z, z)))

\* Mutant of fromRotation: cv's imaginary part is -sinc(theta), without s.
fromRotation_unsigned(v) ==
    LET x == Mul(Mul(v[1], Math_PI), Int2Num(2))
        y == Mul(Mul(v[2], Math_PI), Int2Num(2))
        z == Mul(Mul(v[3], Math_PI), Int2Num(2))
        s == RotationSign(x, y, z)
        theta == RotationTheta(x, y, z)
        sigma_v == plus(plus(scaledBy(heap[PAULI_X], JsNumber(x)).obj,
                             scaledBy(heap[PAULI_Y], JsNumber(y)).obj).obj,
                        scaledBy(heap[PAULI_Z], JsNumber(z)).obj).obj
        ci == Complex_times(Complex(Add(One, Math_cos(Mul(s, theta))),
                                    Math_sin(Mul(s, theta))),
                            JsNumber(Half))
        cv == Complex_times(Complex(Mul(Math_sin(Div(theta, Int2Num(2))),
                                        sinc(Div(theta, Int2Num(2)))),
                                    Neg(sinc(theta))),
                            JsNumber(Mul(s, Half)))
    IN  minus(scaledBy(heap[IDENTITY], ci).obj, scaledBy(sigma_v, cv).obj)

\* Quop.fromRotation(v), v a sequence of three numbers. The intermediate
\* Quops are garbage once it returns; only the result is kept.
fromRotation(v) ==
    LET x == Mul(Mul(v[1], Math_PI), Int2Num(2))
        y == Mul(Mul(v[2], Math_PI), Int2Num(2))
        z == Mul(Mul(v[3], Math_PI), Int2Num(2))
        s == RotationSign(x, y, z)
        theta == RotationTheta(x, y, z)
        sigma_v == plus(plus(scaledBy(heap[PAULI_X], JsNumber(x)).obj,
                             scaledBy(heap[PAULI_Y], JsNumber(y)).obj).obj,
                        scaledBy(heap[PAULI_Z], JsNumber(z)).obj).obj
        ci == Complex_times(Complex(Add(One, Math_cos(Mul(s, theta))),
                                    Math_sin(Mul(s, theta))),
                            JsNumber(Half))
        cv == Complex_times(Complex(Mul(Math_sin(Div(theta, Int2Num(2))),
                                        sinc(Div(theta, Int2Num(2)))),
                                    Mul(Neg(s), sinc(theta))),
                            JsNumber(Mul(s, Half)))
    IN  minus(scaledBy(heap[IDENTITY], ci).obj, scaledBy(sigma_v, cv).obj)

\* --------------------------------------------------------------- inputs
\* Largest integer coefficient handed to Quop.from and scaledBy.
MaxCoef == 1

\* Coefficients a caller hands over: numbers and Complex values.
Coefs == {JsNumber(Int2Num(k)) : k \in 0..MaxCoef} \cup {Complex(Int2Num(1), Int2Num(2))}

\* Values that are neither numbers nor Complex, nor Quops.
Foreign == {JsNull, JsUndefined, JsObject, JsString("1")}

\* Arguments of Quop.from: arrays of 4 coefficients; arrays of another
\* length; arrays of 4 with one element that does not convert; non-arrays.
FromArgs ==
    {JsArray(<<p, q, r, t>>) : p \in Coefs, q \in Coefs, r \in Coefs, t \in Coefs}
    \cup {JsArray(<<>>), JsArray(<<JsNumber(One), JsNumber(One), JsNumber(One)>>),
          JsArray(<<JsNumber(One), JsNumber(One), JsNumber(One), JsNumber(One),
                    JsNumber(One)>>)}
    \cup {JsArray([i \in 1..4 |-> IF i = k THEN f ELSE JsNumber(One)]) :
              k \in 1..4, f \in Foreign}
    \cup Foreign \cup {JsNumber(One), Complex(One, Zero), QuopRef(IDENTITY)}

\* Arguments of the raw constructor.
CtorArgs == {Complex(Int2Num(1), Int2Num(2)), JsNumber(One), JsUndefined}

\* Factors of scaledBy: numbers and Complex values.
Factors == Coefs \cup {JsNumber(Int2Num(-1)), Complex(Zero, One)}

\* Rotation vectors: components k/4, or k*sqrt(2)/8, for which theta is a
\* multiple of pi/2 (theta / 2 a multiple of pi/4).
Turns == (0 - MaxTurns)..MaxTurns
VectorTheta(v) ==
    RotationTheta(Mul(Mul(v[1], Math_PI), Int2Num(2)),
                  Mul(Mul(v[2], Math_PI), Int2Num(2)),
                  Mul(Mul(v[3], Math_PI), Int2Num(2)))
Representable(v) ==
    /\ HasSqrt(Add(Add(Mul(v[1], v[1]), Mul(v[2], v[2])), Mul(v[3], v[3])))
    /\ IsOctant(Div(VectorTheta(v), Int2Num(2)))
RotationVectors ==
    {v \in {<<Num(i, 0, 4, 0), Num(j, 0, 4, 0), Num(k, 0, 4, 0)>> :
                i \in Turns, j \in Turns, k \in Turns}
           \cup {<<Num(0, i, 8, 0), Num(0, j, 8, 0), Num(0, k, 8, 0)>> :
                i \in Turns, j \in Turns, k \in Turns} :
        Representable(v)}

\* ----------------------------------------------------------------- Init
\* Lines 162-166: the named constants.
Init ==
    /\ heap = <<Quop_from(JsArray(<<JsNumber(One), JsNumber(Zero),
                                    JsNumber(Zero), JsNumber(One)>>)).obj,
                Quop_from(JsArray(<<JsNumber(Zero), JsNumber(One),
                                    JsNumber(One), JsNumber(Zero)>>)).obj,
                Quop_from(JsArray(<<JsNumber(Zero), Complex(Zero, Int2Num(-1)),
                                    Complex(Zero, One), JsNumber(Zero)>>)).obj,
                Quop_from(JsArray(<<JsNumber(One), JsNumber(Zero),
                                    JsNumber(Zero), JsNumber(Int2Num(-1))>>)).obj,
                scaledBy(Quop_from(JsArray(<<JsNumber(One), JsNumber(One),
                                             JsNumber(One), JsNumber(Int2Num(-1))>>)).obj,
                         JsNumber(Math_sqrt(Half))).obj>>
    /\ last = [op |-> "init", this |-> 0, args |-> <<>>, threw |-> FALSE,
               ret |-> JsUndefined]
    /\ ncalls = 0

Refs == 1..Len(heap)

\* -------------------------------------------------------------- actions
\* A call that constructs a Quop: the new object gets a fresh address and
\* no other object changes; a call that threw leaves the heap as it was.
Construct(op, this, args, res) ==
    /\ ncalls' = ncalls + 1
    /\ IF res.threw
       THEN /\ heap' = heap
            /\ last' = [op |-> op, this |-> this, args |-> args, threw |-> TRUE,
                        ret |-> JsUndefined]
       ELSE /\ heap' = Append(heap, res.obj)
            /\ last' = [op |-> op, this |-> this, args |-> args, threw |-> FALSE,
                        ret |-> QuopRef(Len(heap) + 1)]

\* A call that returns a value and constructs nothing.
Answer(op, this, args, val) ==
    /\ ncalls' = ncalls + 1
    /\ heap' = heap
    /\ last' = [op |-> op, this |-> this, args |-> args,
                threw |-> (val.tag = "throw"),
                ret |-> IF val.tag = "throw" THEN JsUndefined ELSE val]

New ==
    /\ ncalls < MaxCalls
    /\ \E a \in CtorArgs, b \in CtorArgs, c \in CtorArgs, d \in CtorArgs :
           Construct("Quop", 0, <<a, b, c, d>>, Quop(a, b, c, d))

From ==
    /\ ncalls < MaxCalls
    /\ \E coefs \in FromArgs : Construct("from", 0, <<coefs>>, Quop_from(coefs))

IsEqualTo ==
    /\ ncalls < MaxCalls
    /\ \E r \in Refs, other \in {QuopRef(o) : o \in Refs} \cup Foreign
                                 \cup {JsNumber(One), JsArray(<<>>)} :
           Answer("isEqualTo", r, <<other>>, isEqualTo(heap[r], other))

ToString ==
    /\ ncalls < MaxCalls
    /\ \E r \in Refs : Answer("toString", r, <<>>, toString(heap[r]))

\* Mutant of Adjoint: the receiver is overwritten and returned.
Adjoint_inPlace ==
    /\ ncalls < MaxCalls
    /\ \E r \in Refs :
           /\ ncalls' = ncalls + 1
           /\ heap' = [heap EXCEPT ![r] = adjoint(heap[r]).obj]
           /\ last' = [op |-> "adjoint", this |-> r, args |-> <<>>, threw |-> FALSE,
                       ret |-> QuopRef(r)]

Adjoint ==
    /\ ncalls < MaxCalls
    /\ \E r \in Refs : Construct("adjoint", r, <<>>, adjoint(heap[r]))

ScaledBy ==
    /\ ncalls < MaxCalls
    /\ \E r \in Refs, v \in Factors :
           Construct("scaledBy", r, <<v>>, scaledBy(heap[r], v))

Plus ==
    /\ ncalls < MaxCalls
    /\ \E r \in Refs, o \in Refs :
           Construct("plus", r, <<QuopRef(o)>>, plus(heap[r], heap[o]))

Minus ==
    /\ ncalls < MaxCalls
    /\ \E r \in Refs, o \in Refs :
           Construct("minus", r, <<QuopRef(o)>>, minus(heap[r], heap[o]))

Times ==
    /\ ncalls < MaxCalls
    /\ \E r \in Refs, o \in Refs :
           Construct("times", r, <<QuopRef(o)>>, times(heap[r], heap[o]))

FromRotation ==
    /\ ncalls < MaxCalls
    /\ \E v \in RotationVectors :
           Construct("fromRotation", 0,
                     <<JsArray(<<JsNumber(v[1]), JsNumber(v[2]), JsNumber(v[3])>>)>>,
                     fromRotation(v))

Next ==
    \/ New
    \/ From
    \/ IsEqualTo
    \/ ToString
    \/ Adjoint
    \/ ScaledBy
    \/ Plus
    \/ Minus
    \/ Times
    \/ FromRotation

Spec == Init /\ [][Next]_vars

\* ---------------------------------------------------------------- claims
\* The objects of the last call.
This == heap[last.this]
Other == heap[last.args[1].ref]
Ret == heap[last.ret.ref]
Fields == {"a", "b", "c", "d"}

\* p*q + r*s on Complex values, written out on the real and imaginary parts.
DotRe(p, q, r, s) ==
    Add(Sub(Mul(p.re, q.re), Mul(p.im, q.im)), Sub(Mul(r.re, s.re), Mul(r.im, s.im)))
DotIm(p, q, r, s) ==
    Add(Add(Mul(p.re, q.im), Mul(p.im, q.re)), Add(Mul(r.re, s.im), Mul(r.im, s.re)))
IsDot(z, p, q, r, s) ==
    InstanceofComplex(z) /\ z.re = DotRe(p, q, r, s) /\ z.im = DotIm(p, q, r, s)

\* C1: P.times(Q) is the 2x2 matrix product with P on the left: its entries
\* are a*e+b*g, a*f+b*h, c*e+d*g, c*f+d*h for P = [[a,b],[c,d]] and
\* Q = [[e,f],[g,h]].
C1_TimesIsLeftProduct ==
    last.op = "times" =>
        /\ ~last.threw
        /\ last.ret = QuopRef(Len(heap))
        /\ Ret.a = Complex_plus(Complex_times(This.a, Other.a), Complex_times(This.b, Other.c))
        /\ Ret.b = Complex_plus(Complex_times(This.a, Other.b), Complex_times(This.b, Other.d))
        /\ Ret.c = Complex_plus(Complex_times(This.c, Other.a), Complex_times(This.d, Other.c))
        /\ Ret.d = Complex_plus(Complex_times(This.c, Other.b), Complex_times(This.d, Other.d))
        /\ IsDot(Ret.a, This.a, Other.a, This.b, Other.c)
        /\ IsDot(Ret.b, This.a, Other.b, This.b, Other.d)
        /\ IsDot(Ret.c, This.c, Other.a, This.d, Other.c)
        /\ IsDot(Ret.d, This.c, Other.b, This.d, Other.d)

\* C1 witness: times was called on two Quops that do not commute.
C1_Witness ==
    /\ last.op = "times"
    /\ last.this > HADAMARD
    /\ ~IsDot(Ret.a, Other.a, This.a, Other.b, This.c)

\* C2: IDENTITY.times(X).isEqualTo(X) and X.times(IDENTITY).isEqualTo(X), for
\* every Quop X.
C2_IdentityTwoSided ==
    last.op = "times" =>
        /\ last.this = IDENTITY => isEqualTo(Ret, last.args[1]) = JsTrue
        /\ last.args[1].ref = IDENTITY => isEqualTo(Ret, QuopRef(last.this)) = JsTrue

\* C2 witness: IDENTITY.times(X) was called for an X made by a call, with four
\* non-zero entries, b and c different.
C2_Witness ==
    /\ last.op = "times"
    /\ last.this = IDENTITY
    /\ last.args[1].ref > HADAMARD
    /\ \A f \in Fields : ~Complex_isEqualTo(Other[f], Complex(Zero, Zero))
    /\ ~Complex_isEqualTo(Other.b, Other.c)

\* z is the complex conjugate of w.
IsConj(z, w) == InstanceofComplex(z) /\ z.re = w.re /\ z.im = Neg(w.im)

\* C3: X.adjoint() is [[conj(a), conj(c)], [conj(b), conj(d)]], and
\* X.adjoint().adjoint().isEqualTo(X).
C3_AdjointInvolution ==
    last.op = "adjoint" =>
        /\ ~last.threw
        /\ IsConj(Ret.a, This.a)
        /\ IsConj(Ret.b, This.c)
        /\ IsConj(Ret.c, This.b)
        /\ IsConj(Ret.d, This.d)
        /\ ~adjoint(Ret).threw
        /\ isEqualTo(adjoint(Ret).obj, QuopRef(last.this)) = JsTrue

\* C3 witness: adjoint was called on a Quop whose b and c differ and whose b
\* has a non-zero imaginary part.
C3_Witness ==
    /\ last.op = "adjoint"
    /\ ~IsZero(This.b.im)
    /\ This.b # This.c

\* The product of PAULI_Z by the Complex number (0, k).
ImagZ(k) ==
    [a |-> Complex(Zero, Int2Num(k)), b |-> Complex(Zero, Zero),
     c |-> Complex(Zero, Zero), d |-> Complex(Zero, Int2Num(0 - k))]

\* C4: PAULI_X.times(PAULI_Y) is i*PAULI_Z, PAULI_Y.times(PAULI_X) is
\* -i*PAULI_Z, and a Quop equal to the one is not isEqualTo the other.
C4_PauliXYAnticommute ==
    /\ (last.op = "times" /\ last.this = PAULI_X /\ last.args[1].ref = PAULI_Y) =>
           /\ Ret = ImagZ(1)
           /\ Ret = scaledBy(heap[PAULI_Z], Complex(Zero, One)).obj
    /\ (last.op = "times" /\ last.this = PAULI_Y /\ last.args[1].ref = PAULI_X) =>
           /\ Ret = ImagZ(-1)
           /\ Ret = scaledBy(heap[PAULI_Z], Complex(Zero, Int2Num(-1))).obj
           /\ \A r \in Refs : heap[r] = times(heap[PAULI_X], heap[PAULI_Y]).obj =>
                  /\ isEqualTo(Ret, QuopRef(r)) = JsFalse
                  /\ isEqualTo(heap[r], last.ret) = JsFalse

\* C4 witness: PAULI_X.times(PAULI_Y), then PAULI_Y.times(PAULI_X).
C4_Witness ==
    /\ last.op = "times" /\ last.this = PAULI_Y /\ last.args[1].ref = PAULI_X
    /\ Len(heap) = HADAMARD + 2
    /\ heap[HADAMARD + 1] = ImagZ(1)

\* An ordered sequence of exactly 4 elements, each a number or a Complex.
Convertible(v) == v.tag \in {"number", "Complex"}
FourCoefs(coefs) ==
    /\ coefs.tag = "Array"
    /\ Len(coefs.elems) = 4
    /\ \A i \in 1..4 : Convertible(coefs.elems[i])
\* The Complex a coefficient stands for.
IsCoef(z, v) ==
    /\ InstanceofComplex(z)
    /\ z.re = v.re
    /\ z.im = (IF v.tag = "Complex" THEN v.im ELSE Zero)

\* C5: Quop.from returns a Quop exactly for a sequence of 4 convertible
\* elements, placed in a-b-c-d order; for every other input it throws and
\* returns no Quop.
C5_FromValidates ==
    last.op = "from" =>
        IF FourCoefs(last.args[1])
        THEN /\ ~last.threw
             /\ last.ret = QuopRef(Len(heap))
             /\ IsCoef(Ret.a, last.args[1].elems[1])
             /\ IsCoef(Ret.b, last.args[1].elems[2])
             /\ IsCoef(Ret.c, last.args[1].elems[3])
             /\ IsCoef(Ret.d, last.args[1].elems[4])
        ELSE /\ last.threw
             /\ last.ret = JsUndefined

\* C5 witness: Quop.from threw on an array of 5 numbers.
C5_Witness ==
    /\ last.op = "from"
    /\ last.threw
    /\ last.args[1].tag = "Array"
    /\ Len(last.args[1].elems) = 5
    /\ \A i \in 1..5 : last.args[1].elems[i].tag = "number"

\* z and w have the same real and the same imaginary part.
SameComplex(z, w) == z.re = w.re /\ z.im = w.im

\* C6: isEqualTo never throws; it returns false for a value that is not a
\* Quop, and for a Quop it returns true exactly when a, b, c and d are
\* pairwise equal.
C6_IsEqualToTotal ==
    last.op = "isEqualTo" =>
        /\ ~last.threw
        /\ last.ret \in {JsTrue, JsFalse}
        /\ last.args[1].tag # "Quop" => last.ret = JsFalse
        /\ last.args[1].tag = "Quop" =>
               (last.ret = JsTrue <=> \A f \in Fields : SameComplex(This[f], Other[f]))

\* C6 witness: isEqualTo returned false on two Quops that differ in d only.
C6_Witness ==
    /\ last.op = "isEqualTo"
    /\ last.args[1].tag = "Quop"
    /\ last.ret = JsFalse
    /\ \A f \in {"a", "b", "c"} : SameComplex(This[f], Other[f])

ZeroVector == JsArray(<<JsNumber(Zero), JsNumber(Zero), JsNumber(Zero)>>)

\* C7: fromRotation([0,0,0]) takes s = 1 (the linear form is 0, and 0 >= 0),
\* both sinc calls take the series branch, and the result isEqualTo IDENTITY.
C7_ZeroVectorIsIdentity ==
    (last.op = "fromRotation" /\ last.args[1] = ZeroVector) =>
        /\ ~last.threw
        /\ RotationSign(Zero, Zero, Zero) = One
        /\ LtSmall(Math_abs(RotationTheta(Zero, Zero, Zero)))
        /\ LtSmall(Math_abs(Div(RotationTheta(Zero, Zero, Zero), Int2Num(2))))
        /\ isEqualTo(heap[IDENTITY], last.ret) = JsTrue
        /\ isEqualTo(Ret, QuopRef(IDENTITY)) = JsTrue

\* C7 witness: fromRotation([0,0,0]) was called.
C7_Witness ==
    /\ last.op = "fromRotation"
    /\ last.args[1] = ZeroVector
    /\ last.ret = QuopRef(Len(heap))

\* The rotation vector of the last call, scaled by 2*pi, and its s and theta.
LastX == Mul(Mul(last.args[1].elems[1].re, Math_PI), Int2Num(2))
LastY == Mul(Mul(last.args[1].elems[2].re, Math_PI), Int2Num(2))
LastZ == Mul(Mul(last.args[1].elems[3].re, Math_PI), Int2Num(2))
LastSign == RotationSign(LastX, LastY, LastZ)
LastTheta == RotationTheta(LastX, LastY, LastZ)

C9_Step ==
    /\ Len(heap') >= Len(heap)
    /\ \A r \in 1..Len(heap) : heap'[r] = heap[r]
    /\ last'.ret.tag = "Quop" =>
           /\ last'.ret.ref = Len(heap) + 1
           /\ Len(heap') = Len(heap) + 1

\* C9: no call changes the coefficients of a Quop that exists (the receiver,
\* the argument, the named constants); a call that returns a Quop returns a
\* newly constructed one.
C9_Immutable == [][C9_Step]_vars

\* C9 witness: two calls each constructed a Quop, the second from the first.
C9_Witness ==
    /\ Len(heap) = HADAMARD + 2
    /\ last.op \in {"adjoint", "scaledBy", "plus", "minus", "times"}
    /\ last.this = HADAMARD + 1

\* C10: the constructor throws exactly when one of its four arguments is not
\* a Complex and then yields no Quop; every Quop that exists has four
\* Complex coefficients.
C10_CoefficientsComplex ==
    /\ \A r \in Refs : \A f \in Fields : InstanceofComplex(heap[r][f])
    /\ last.op = "Quop" =>
           /\ last.threw <=> \E i \in 1..4 : ~InstanceofComplex(last.args[i])
           /\ last.threw => last.ret = JsUndefined
           /\ ~last.threw => last.ret = QuopRef(Len(heap))
    /\ last.threw => last.ret.tag # "Quop"

\* C10 witness: the constructor threw on a, b, d Complex and c a number.
C10_Witness ==
    /\ last.op = "Quop"
    /\ last.threw
    /\ InstanceofComplex(last.args[1])
    /\ InstanceofComplex(last.args[2])
    /\ last.args[3].tag = "number"
    /\ InstanceofComplex(last.args[4])
====
